---- MODULE Spec2Model ----
(***************************************************************************)
(* Model of the fluxion-lsp document core: the Document (rope buffer,      *)
(* line_number_map, ast, symbol_table), the Backend store and the three    *)
(* handlers did_open / did_change / hover driven by main_loop.             *)
(*                                                                         *)
(* A text is a sequence of characters; a character is a one-element token  *)
(* (a string).  Rope offsets count characters, String offsets and parser   *)
(* ranges count UTF-8 bytes, and the two line conventions (ropey's and     *)
(* str::lines) are modelled separately, as the libraries define them.      *)
(***************************************************************************)
EXTENDS Integers, Sequences, FiniteSets, TLC

\* ------------------------------------------------------------------------
\* Characters
\* ------------------------------------------------------------------------
LF == "\n"
CR == "\r"
SP == " "
\* a two-byte character (U+00E9), legal in a Python identifier
EAcute == "U+00E9"

NameChars ==
    {"x", "y", EAcute, "a", "b", "c", "d", "e", "f", "o", "p", "s", "X", "Y"}
DigitChars == {"1"}

\* UTF-8 length of one character (str::len counts bytes)
ByteLen(c) == IF c = EAcute THEN 2 ELSE 1

RECURSIVE StrLen(_)
\* String::len / str::len: the byte length of a text
StrLen(t) == IF t = <<>> THEN 0 ELSE ByteLen(Head(t)) + StrLen(Tail(t))

\* byte offset of the character at (1-based) index i; i may be Len(t)+1
ByteOff(t, i) == StrLen(SubSeq(t, 1, i - 1))

\* ------------------------------------------------------------------------
\* Sentinels
\* ------------------------------------------------------------------------
\* a panic of a usize-valued library call
PANIC == -1
\* Option<u32>::None of get_line_number
NoLine == -1
\* Option<ModModule>::None
NoAst == [some |-> FALSE, body |-> <<>>]
SomeAst(body) == [some |-> TRUE, body |-> body]

\* ------------------------------------------------------------------------
\* ropey::Rope (character-indexed; line breaks LF, CR and CRLF)
\* ------------------------------------------------------------------------
\* the character at index i (1-based) ends a line break of the rope
RopeBreakAt(t, i) ==
    \/ t[i] = LF
    \/ t[i] = CR /\ ~(i < Len(t) /\ t[i + 1] = LF)

RopeBreaks(t) == {i \in 1..Len(t) : RopeBreakAt(t, i)}

\* Rope::len_lines: the number of line breaks plus one
RopeLenLines(t) == Cardinality(RopeBreaks(t)) + 1

\* Rope::line_to_char: char offset of the start of line n; n may be
\* one past the end (gives len_chars); anything larger panics
RopeLineToChar(t, n) ==
    IF n > RopeLenLines(t) THEN PANIC
    ELSE IF n = RopeLenLines(t) THEN Len(t)
    ELSE IF n = 0 THEN 0
    ELSE CHOOSE i \in RopeBreaks(t) :
             Cardinality({j \in RopeBreaks(t) : j <= i}) = n

\* Rope::remove(start..end) panics when start > end or end > len_chars
RopeRemovePanics(t, start, end) == start > end \/ end > Len(t)

\* mutant of RopeReplace: the new text is inserted at the end of the rope
RopeReplaceAtEnd(t, start, end, text) ==
    SubSeq(t, 1, start) \o SubSeq(t, end + 1, Len(t)) \o text

\* Rope::remove(start..end) followed by Rope::insert(start, text)
RopeReplace(t, start, end, text) ==
    SubSeq(t, 1, start) \o text \o SubSeq(t, end + 1, Len(t))

\* Rope::char(offset) panics when offset >= len_chars
RopeCharPanics(t, offset) == offset >= Len(t)

\* ------------------------------------------------------------------------
\* str::lines
\* ------------------------------------------------------------------------
\* strip one trailing CR (the CR of a CRLF terminator)
StripCR(l) ==
    IF l /= <<>> /\ l[Len(l)] = CR THEN SubSeq(l, 1, Len(l) - 1) ELSE l

RECURSIVE StrLines(_)
\* the lines of a text: split after every LF; a line loses its LF and a CR
\* right before it; an unterminated last line is kept as it is; a text that
\* ends with LF has no further (empty) line
StrLines(t) ==
    IF t = <<>> THEN <<>>
    ELSE LET lfs == {i \in 1..Len(t) : t[i] = LF}
         IN IF lfs = {} THEN <<t>>
            ELSE LET i == CHOOSE k \in lfs : \A m \in lfs : k <= m
                 IN <<StripCR(SubSeq(t, 1, i - 1))>>
                        \o StrLines(SubSeq(t, i + 1, Len(t)))

RECURSIVE LineMapFrom(_, _)
LineMapFrom(lines, char_count) ==
    IF lines = <<>> THEN <<>>
    ELSE <<char_count>>
             \o LineMapFrom(Tail(lines), char_count + StrLen(Head(lines)) + 1)

\* Document::compute_line_number_map
compute_line_number_map(content) == LineMapFrom(StrLines(content), 0)

\* slice::binary_search on a strictly increasing Vec<usize>:
\* Ok(index) when found, else Err(insertion point); indices are 0-based
binary_search(v, x) ==
    IF \E i \in 1..Len(v) : v[i] = x
    THEN [ok |-> TRUE, index |-> (CHOOSE i \in 1..Len(v) : v[i] = x) - 1]
    ELSE [ok |-> FALSE, index |-> Cardinality({i \in 1..Len(v) : v[i] < x})]

\* the closures of get_line_number on the result of the search
LineOfSearch(r) ==
    IF r.ok THEN r.index
    ELSE IF r.index >= 1 THEN r.index - 1 ELSE NoLine

\* Document::get_line_number: Some(line) or None (NoLine)
get_line_number(line_number_map, offset) ==
    LineOfSearch(binary_search(line_number_map, offset))

\* usize addition that a panic of its left operand never reaches
AddTo(line_start, character) ==
    IF line_start = PANIC THEN PANIC ELSE line_start + character

\* to_rope_position: line_to_char(line) + character (panics with it)
to_rope_position(content, position) ==
    AddTo(RopeLineToChar(content, position.line), position.character)

\* ------------------------------------------------------------------------
\* ruff_python_parser::parse_program, restricted to the statements the
\* documents of the model spell: assignments, expression statements over
\* names, the number 1 and ==, pass, separated by ; and by newlines, and
\* def NAME(): with such statements as its body, on the same line or as
\* an indented block.  Ranges are byte offsets into the text
\* (ruff_text_size::TextRange).
\* ------------------------------------------------------------------------
\* last index j >= i such that t[i..j] lies in S (t[i] is in S)
RunEnd(t, i, S) ==
    CHOOSE j \in i..Len(t) :
        /\ \A k \in i..j : t[k] \in S
        /\ (j = Len(t) \/ t[j + 1] \notin S)

Tok(k, s, e) == [k |-> k, s |-> s, e |-> e]

\* a word is a keyword or a name
WordKind(w) ==
    IF w = <<"d", "e", "f">> THEN "def"
    ELSE IF w = <<"p", "a", "s", "s">> THEN "pass"
    ELSE "name"

RECURSIVE TokFrom(_, _, _)
\* the tokens of t from index i on; bol: i is at the beginning of a line
\* (the spaces that open a line with a statement on it are its indent)
TokFrom(t, i, bol) ==
    IF i > Len(t) THEN <<>>
    ELSE LET c == t[i]
         IN CASE c \in NameChars ->
                   LET j == RunEnd(t, i, NameChars \cup DigitChars)
                   IN <<Tok(WordKind(SubSeq(t, i, j)), i, j)>>
                          \o TokFrom(t, j + 1, FALSE)
              [] c \in DigitChars ->
                   LET j == RunEnd(t, i, NameChars \cup DigitChars)
                       k == IF \A m \in i..j : t[m] \in DigitChars
                            THEN "num" ELSE "bad"
                   IN <<Tok(k, i, j)>> \o TokFrom(t, j + 1, FALSE)
              [] c = "=" ->
                   IF i < Len(t) /\ t[i + 1] = "="
                   THEN <<Tok("eqeq", i, i + 1)>> \o TokFrom(t, i + 2, FALSE)
                   ELSE <<Tok("eq", i, i)>> \o TokFrom(t, i + 1, FALSE)
              [] c = ";" -> <<Tok("semi", i, i)>> \o TokFrom(t, i + 1, FALSE)
              [] c = "(" -> <<Tok("lpar", i, i)>> \o TokFrom(t, i + 1, FALSE)
              [] c = ")" -> <<Tok("rpar", i, i)>> \o TokFrom(t, i + 1, FALSE)
              [] c = ":" -> <<Tok("colon", i, i)>> \o TokFrom(t, i + 1, FALSE)
              [] c = CR /\ i < Len(t) /\ t[i + 1] = LF ->
                   <<Tok("nl", i, i + 1)>> \o TokFrom(t, i + 2, TRUE)
              [] c \in {LF, CR} -> <<Tok("nl", i, i)>> \o TokFrom(t, i + 1, TRUE)
              [] c = SP ->
                   LET j == RunEnd(t, i, {SP})
                   IN IF bol /\ j < Len(t) /\ t[j + 1] \notin {LF, CR}
                      THEN <<Tok("indent", i, j)>> \o TokFrom(t, j + 1, FALSE)
                      ELSE TokFrom(t, j + 1, bol)
              [] OTHER -> <<Tok("bad", i, i)>> \o TokFrom(t, i + 1, FALSE)

Tokens(t) == TokFrom(t, 1, TRUE)

RECURSIVE SplitOn(_, _)
\* the runs of tokens between the tokens of kind k (always at least one run)
SplitOn(toks, k) ==
    LET at == {i \in 1..Len(toks) : toks[i].k = k}
    IN IF at = {} THEN <<toks>>
       ELSE LET i == CHOOSE m \in at : \A n \in at : m <= n
            IN <<SubSeq(toks, 1, i - 1)>>
                   \o SplitOn(SubSeq(toks, i + 1, Len(toks)), k)

\* atom (== atom)*
IsExpr(toks) ==
    /\ Len(toks) % 2 = 1
    /\ \A i \in 1..Len(toks) :
           IF i % 2 = 1 THEN toks[i].k \in {"name", "num"}
           ELSE toks[i].k = "eqeq"

\* pass
IsPass(toks) == Len(toks) = 1 /\ toks[1].k = "pass"

\* pass, or (NAME =)* expr
IsStmt(toks) ==
    LET parts == SplitOn(toks, "eq")
    IN \/ IsPass(toks)
       \/ /\ toks /= <<>>
          /\ \A i \in 1..Len(parts) :
                 IF i < Len(parts)
                 THEN Len(parts[i]) = 1 /\ parts[i][1].k = "name"
                 ELSE IsExpr(parts[i])

\* the statement node of a run of tokens that IsStmt
StmtOf(t, toks) ==
    LET isAssign == \E i \in 1..Len(toks) : toks[i].k = "eq"
    IN [kind |-> IF isAssign THEN "Assign"
                 ELSE IF IsPass(toks) THEN "Pass" ELSE "Expr",
        name |-> IF isAssign THEN SubSeq(t, toks[1].s, toks[1].e) ELSE <<>>,
        start |-> ByteOff(t, toks[1].s),
        end |-> ByteOff(t, toks[Len(toks)].e + 1)]

\* a logical line: empty, or stmt (; stmt)* [;]
LineSegs(line) ==
    LET segs == SplitOn(line, "semi")
    IN IF line = <<>> THEN <<>>
       ELSE IF Len(segs) >= 2 /\ segs[Len(segs)] = <<>>
       THEN SubSeq(segs, 1, Len(segs) - 1)
       ELSE segs

\* the statements one logical line holds, when each of them IsStmt
SimpleOk(line) ==
    /\ line /= <<>>
    /\ \A i \in 1..Len(LineSegs(line)) : IsStmt(LineSegs(line)[i])
StmtsOf(t, line) ==
    [i \in 1..Len(LineSegs(line)) |-> StmtOf(t, LineSegs(line)[i])]

\* the last token of the last statement of a logical line
LastTok(line) ==
    LineSegs(line)[Len(LineSegs(line))]
        [Len(LineSegs(line)[Len(LineSegs(line))])]

\* def NAME ( ) :
IsHeader(line) ==
    /\ Len(line) >= 5
    /\ line[1].k = "def" /\ line[2].k = "name" /\ line[3].k = "lpar"
    /\ line[4].k = "rpar" /\ line[5].k = "colon"

Indented(line) == line[1].k = "indent"
IndentOf(line) == line[1].e - line[1].s + 1

RECURSIVE BlockLen(_)
\* the number of indented lines the lines start with
BlockLen(lines) ==
    IF lines = <<>> \/ ~Indented(Head(lines)) THEN 0
    ELSE 1 + BlockLen(Tail(lines))

\* the lines of a block are indented alike and hold simple statements
BlockOk(lines, n) ==
    /\ n >= 1
    /\ \A i \in 1..n :
           /\ IndentOf(lines[i]) = IndentOf(lines[1])
           /\ SimpleOk(Tail(lines[i]))

\* StmtFunctionDef: its range runs from def to the end of the last
\* statement of its body
FunctionDef(t, header, last) ==
    [kind |-> "FunctionDef",
     name |-> SubSeq(t, header[2].s, header[2].e),
     start |-> ByteOff(t, header[1].s),
     end |-> ByteOff(t, last.e + 1)]

SyntaxError == [ok |-> FALSE, body |-> <<>>]

\* the statements in front of those of the lines that follow
Prepend(stmts, r) ==
    IF r.ok THEN [ok |-> TRUE, body |-> stmts \o r.body] ELSE r

RECURSIVE ParseLines(_, _)
RECURSIVE ParseDef(_, _, _, _)
\* the statements of the non-blank logical lines of a module
ParseLines(t, lines) ==
    IF lines = <<>> THEN [ok |-> TRUE, body |-> <<>>]
    ELSE IF Head(lines)[1].k = "def"
    THEN ParseDef(t, Head(lines), Tail(lines), BlockLen(Tail(lines)))
    ELSE IF SimpleOk(Head(lines))
    THEN Prepend(StmtsOf(t, Head(lines)), ParseLines(t, Tail(lines)))
    ELSE SyntaxError
\* a function definition: its body follows the colon, or is the block of
\* the n indented lines that come next
ParseDef(t, header, rest, n) ==
    IF ~IsHeader(header) THEN SyntaxError
    ELSE IF Len(header) > 5
    THEN IF SimpleOk(SubSeq(header, 6, Len(header)))
         THEN Prepend(<<FunctionDef(t, header,
                            LastTok(SubSeq(header, 6, Len(header))))>>,
                      ParseLines(t, rest))
         ELSE SyntaxError
    ELSE IF BlockOk(rest, n)
    THEN Prepend(<<FunctionDef(t, header, LastTok(Tail(rest[n])))>>,
                 ParseLines(t, SubSeq(rest, n + 1, Len(rest))))
    ELSE SyntaxError

\* blank lines carry no token
NonBlank(lines) == SelectSeq(lines, LAMBDA l : l /= <<>>)

\* the module of a tokenised text, or the syntax error
ParseTokens(t, toks) ==
    IF \E i \in 1..Len(toks) : toks[i].k = "bad" THEN SyntaxError
    ELSE ParseLines(t, NonBlank(SplitOn(toks, "nl")))

\* parse_program: Ok(body) or Err
parse_program(t) == ParseTokens(t, Tokens(t))

\* Result::ok
ResultOk(r) == IF r.ok THEN SomeAst(r.body) ELSE NoAst

\* parse_rope_to_ast(..).ok(): Some(ModModule) or None
parse_rope_to_ast(content) == ResultOk(parse_program(content))

\* ------------------------------------------------------------------------
\* Symbols
\* ------------------------------------------------------------------------
\* Result::unwrap_or_else(|index| index.saturating_sub(1))
UnwrapLine(r) ==
    IF r.ok THEN r.index
    ELSE IF r.index >= 1 THEN r.index - 1 ELSE 0

\* binary_search(..).unwrap_or_else(..) of create_location
SearchLine(line_number_map, offset) ==
    UnwrapLine(binary_search(line_number_map, offset))

Position(line, character) == [line |-> line, character |-> character]

\* the Location of create_location, from the two lines found
LocationOf(uri, map, start_offset, end_offset, start_line, end_line) ==
    [uri |-> uri,
     start |-> Position(start_line, start_offset - map[start_line + 1]),
     end |-> Position(end_line, end_offset - map[end_line + 1])]

\* Document::create_location
create_location(uri, line_number_map, start_offset, end_offset) ==
    LocationOf(uri, line_number_map, start_offset, end_offset,
               SearchLine(line_number_map, start_offset),
               SearchLine(line_number_map, end_offset))

\* mutant of create_symbol_info: a function definition gives no record
create_symbol_info_assign(uri, line_number_map, stmt) ==
    IF stmt.kind = "Assign"
    THEN {[name |-> stmt.name, kind |-> "VARIABLE",
           location |-> create_location(uri, line_number_map,
                                        stmt.start, stmt.end)]}
    ELSE {}

\* Document::create_symbol_info: the Option<SymbolInformation> as a set
\* of at most one element (the model spells no class, annotated
\* assignment, for or import statement)
create_symbol_info(uri, line_number_map, stmt) ==
    IF stmt.kind \in {"FunctionDef", "Assign"}
    THEN {[name |-> stmt.name,
           kind |-> IF stmt.kind = "FunctionDef" THEN "FUNCTION"
                    ELSE "VARIABLE",
           location |-> create_location(uri, line_number_map,
                                        stmt.start, stmt.end)]}
    ELSE {}

\* SymbolTable::new
SymbolTableNew == {}

\* mutant of SymbolTableInsert: the first record of a name is kept
SymbolTableInsertKeep(symbols, symbol) ==
    IF \E s \in symbols : s.name = symbol.name THEN symbols
    ELSE symbols \cup {symbol}

\* SymbolTable::insert (HashMap::insert keyed by name: replaces)
SymbolTableInsert(symbols, symbol) ==
    {s \in symbols : s.name /= symbol.name} \cup {symbol}

\* if let Some(symbol_info) = .. { symbol_table.insert(symbol_info) }
InsertSome(symbols, info) ==
    IF info = {} THEN symbols
    ELSE SymbolTableInsert(symbols, CHOOSE s \in info : TRUE)

RECURSIVE InsertAll(_, _, _, _)
InsertAll(symbols, uri, line_number_map, body) ==
    IF body = <<>> THEN symbols
    ELSE InsertAll(InsertSome(symbols,
                       create_symbol_info(uri, line_number_map, Head(body))),
                   uri, line_number_map, Tail(body))

\* Document::compute_symbol_table
compute_symbol_table(uri, line_number_map, ast) ==
    IF ~ast.some THEN SymbolTableNew
    ELSE InsertAll(SymbolTableNew, uri, line_number_map, ast.body)

\* ------------------------------------------------------------------------
\* Document
\* ------------------------------------------------------------------------
\* TextDocumentContentChangeEvent: range: Option<Range>, text
RangedEdit(start, end, text) ==
    [ranged |-> TRUE, start |-> start, end |-> end, text |-> text]
FullEdit(text) ==
    [ranged |-> FALSE, start |-> Position(0, 0), end |-> Position(0, 0),
     text |-> text]

\* the ranged arm of apply_changes, on the offsets of the range
replace_range(content, start, end, text) ==
    IF start = PANIC \/ end = PANIC \/ RopeRemovePanics(content, start, end)
    THEN [content |-> content, panicked |-> TRUE]
    ELSE [content |-> RopeReplace(content, start, end, text),
          panicked |-> FALSE]

\* mutant of apply_change: a rangeless edit is inserted at the end of
\* the rope instead of replacing it
apply_change_append(content, change) ==
    IF change.ranged
    THEN replace_range(content,
                       to_rope_position(content, change.start),
                       to_rope_position(content, change.end), change.text)
    ELSE [content |-> content \o change.text, panicked |-> FALSE]

\* one iteration of the loop of apply_changes: the rope after the change;
\* panicked when to_rope_position or Rope::remove panics (rope untouched)
apply_change(content, change) ==
    IF change.ranged
    THEN replace_range(content,
                       to_rope_position(content, change.start),
                       to_rope_position(content, change.end), change.text)
    ELSE [content |-> change.text, panicked |-> FALSE]

RECURSIVE apply_changes_reversed(_, _)
RECURSIVE ReversedRest(_, _)
\* mutant of apply_changes: the changes are taken last to first
apply_changes_reversed(content, changes) ==
    IF changes = <<>> THEN [content |-> content, panicked |-> FALSE]
    ELSE ReversedRest(apply_change(content, changes[Len(changes)]),
                      SubSeq(changes, 1, Len(changes) - 1))
ReversedRest(next, rest) ==
    IF next.panicked THEN next
    ELSE apply_changes_reversed(next.content, rest)

RECURSIVE apply_changes(_, _)
RECURSIVE ApplyRest(_, _)
\* apply_changes: the changes in array order, each on the rope as the
\* previous ones left it; a panic leaves the rope as it was at that point
apply_changes(content, changes) ==
    IF changes = <<>> THEN [content |-> content, panicked |-> FALSE]
    ELSE ApplyRest(apply_change(content, Head(changes)), Tail(changes))
\* the loop of apply_changes after one change
ApplyRest(next, rest) ==
    IF next.panicked THEN next ELSE apply_changes(next.content, rest)

\* a Document of the given buffer, line index and tree, with the symbol
\* table compute_symbol_table extracts from them
DocumentOf(uri, content, line_number_map, ast) ==
    [uri |-> uri,
     content |-> content,
     ast |-> ast,
     line_number_map |-> line_number_map,
     symbol_table |-> compute_symbol_table(uri, line_number_map, ast)]

\* Document::new
DocumentNew(uri, text) ==
    DocumentOf(uri, text, compute_line_number_map(text),
               parse_rope_to_ast(text))

\* mutant of UpdateApplied: when the new text does not parse, the tree
\* and the symbol table of the document are left as they were
UpdateAppliedRetain(document, r) ==
    IF r.panicked
    THEN [document |-> [document EXCEPT !.content = r.content],
          panicked |-> TRUE]
    ELSE IF parse_program(r.content).ok
    THEN [document |-> DocumentOf(document.uri, r.content,
                                  compute_line_number_map(r.content),
                                  parse_rope_to_ast(r.content)),
          panicked |-> FALSE]
    ELSE [document |-> [document EXCEPT
                            !.content = r.content,
                            !.line_number_map =
                                compute_line_number_map(r.content)],
          panicked |-> FALSE]

\* mutant of UpdateApplied: when the new text does not parse, update
\* gives the buffer back as it was and leaves the Document untouched
UpdateAppliedAbort(document, r) ==
    IF r.panicked
    THEN [document |-> [document EXCEPT !.content = r.content],
          panicked |-> TRUE]
    ELSE IF parse_program(r.content).ok
    THEN [document |-> DocumentOf(document.uri, r.content,
                                  compute_line_number_map(r.content),
                                  parse_rope_to_ast(r.content)),
          panicked |-> FALSE]
    ELSE [document |-> document, panicked |-> FALSE]

\* mutant of UpdateApplied: update stops after apply_changes, the tree
\* and the symbol table stay those of the text before
UpdateAppliedBuffer(document, r) ==
    [document |-> [document EXCEPT !.content = r.content],
     panicked |-> r.panicked]

\* Document::update after apply_changes gave r: unwound by its panic
\* (only the rope has been touched), or line index, tree and symbol
\* table rebuilt from the rope
UpdateApplied(document, r) ==
    IF r.panicked
    THEN [document |-> [document EXCEPT !.content = r.content],
          panicked |-> TRUE]
    ELSE [document |-> DocumentOf(document.uri, r.content,
                                  compute_line_number_map(r.content),
                                  parse_rope_to_ast(r.content)),
          panicked |-> FALSE]

\* Document::update: the document as update leaves it, and whether it
\* unwound with a panic
DocumentUpdate(document, changes) ==
    UpdateApplied(document, apply_changes(document.content, changes))

\* ------------------------------------------------------------------------
\* Backend::hover
\* ------------------------------------------------------------------------
\* mutant of HoverMatch: the end column of a span is exclusive
HoverMatchExclusive(location, line, character) ==
    /\ line >= location.start.line
    /\ line <= location.end.line
    /\ \/ line = location.start.line /\ character >= location.start.character
       \/ line > location.start.line
    /\ \/ line = location.end.line /\ character < location.end.character
       \/ line < location.end.line

\* the containment test of the scan over symbol_table.iter()
HoverMatch(location, line, character) ==
    /\ line >= location.start.line
    /\ line <= location.end.line
    /\ \/ line = location.start.line /\ character >= location.start.character
       \/ line = location.end.line /\ character <= location.end.character
       \/ line > location.start.line /\ line < location.end.line

\* get_line_number(offset).unwrap_or(0)
UnwrapOrZero(l) == IF l = NoLine THEN 0 ELSE l

\* offset - line_number_map[line]; the index panics past the end
ColumnOf(line_number_map, offset, line) ==
    IF offset = PANIC \/ line >= Len(line_number_map) THEN PANIC
    ELSE offset - line_number_map[line + 1]

\* offset, line and character as hover resolves them (PANIC: a panic)
HoverOffset(document, position) ==
    to_rope_position(document.content, position)
HoverLine(document, position) ==
    UnwrapOrZero(get_line_number(document.line_number_map,
                                 HoverOffset(document, position)))
HoverCharacter(document, position) ==
    ColumnOf(document.line_number_map, HoverOffset(document, position),
             HoverLine(document, position))

HoverPanic == [kind |-> "panic"]
HoverNone == [kind |-> "none"]

\* the symbols the scan can stop at
HoverMatches(symbol_table, line, character) ==
    {s \in symbol_table : HoverMatch(s.location, line, character)}

\* the Hover built from the scan: the symbol found, or the raw character
\* (Rope::char panics past the end)
HoverContents(document, uri, offset, line, character, matches) ==
    IF offset = PANIC \/ character = PANIC THEN {HoverPanic}
    ELSE IF matches /= {}
    THEN {[kind |-> "symbol", name |-> s.name, symkind |-> s.kind,
           location |-> s.location] : s \in matches}
    ELSE IF RopeCharPanics(document.content, offset) THEN {HoverPanic}
    ELSE {[kind |-> "char", ch |-> document.content[offset + 1],
           offset |-> offset, line |-> line, character |-> character,
           uri |-> uri]}

\* the closure of hover on a stored document: every result some iteration
\* order of the HashMap can produce (the first match of the scan), or a
\* panic of line_to_char, of the index into line_number_map or of Rope::char
HoverResults(document, uri, position) ==
    HoverContents(document, uri,
                  HoverOffset(document, position),
                  HoverLine(document, position),
                  HoverCharacter(document, position),
                  HoverMatches(document.symbol_table,
                               HoverLine(document, position),
                               HoverCharacter(document, position)))

\* ------------------------------------------------------------------------
\* Inputs
\* ------------------------------------------------------------------------
MaxLine == 1
MaxChar == 5
MaxChanges == 2

URIs == {"A", "B"}

\* "def foo():\n    pass\n"
FooText ==
    <<"d", "e", "f", SP, "f", "o", "o", "(", ")", ":", LF,
      SP, SP, SP, SP, "p", "a", "s", "s", LF>>

OpenTexts ==
    { <<>>,
      <<"x", "=", "1">>,
      <<"x", "=", "1", ";", "1">>,
      <<"x", "=", "1", LF, "x", "=", "y">>,
      <<"x", CR, LF, "y", "=", "1">>,
      <<EAcute, LF, "x", "=">> }

\* the documents of the scenarios: a word, an assignment with spaces and
\* a final newline, a function over two lines, two assignments on a line
SceneTexts ==
    { <<"a", "b", "c", "d", "e">>,
      <<"x", SP, "=", SP, "1", LF>>,
      FooText,
      <<"x", "=", "1", ";", "y", "=", "1">> }

\* the second document stands by: it opens with one text
OpenTextsOf(uri) ==
    IF uri = "A" THEN OpenTexts ELSE { <<"x", "=", "1">> }
SceneTextsOf(uri) ==
    IF uri = "A" THEN SceneTexts ELSE { <<"x", "=", "1">> }

EditTexts == { <<>>, <<"=">> }
FullTexts == { <<"y", "=", "1">>, <<"x", "=">> }

RequestIds == {1, 2}

HoverPositions ==
    {Position(l, c) : l \in 0..MaxLine, c \in 0..MaxChar}
\* the positions of ranged edits: around the first line break
EditPositions == {Position(l, c) : l \in 0..1, c \in 0..1}

\* a replacement inside a line: the characters [1, 3) of line 0
InnerEdits == {RangedEdit(Position(0, 1), Position(0, 3), <<"X", "Y">>)}

Edits ==
    {RangedEdit(s, e, t) : s \in EditPositions, e \in EditPositions,
                           t \in EditTexts}
        \cup InnerEdits
        \cup {FullEdit(t) : t \in FullTexts}

\* the edits of the two-edit batches: over line starts, an insertion of
\* "=" at an empty range or a removal of a non-empty (or reversed) one
PairEdits ==
    {e \in Edits : /\ e.ranged
                   /\ e.start.character = 0 /\ e.end.character = 0
                   /\ (e.text = <<>>) = (e.start /= e.end)}

Batches ==
    {<<e>> : e \in Edits} \cup {<<e1, e2>> : e1 \in PairEdits, e2 \in PairEdits}

\* ------------------------------------------------------------------------
\* State
\* ------------------------------------------------------------------------
VARIABLES
    documents,  \* Backend.documents: uri string -> Document
    running,    \* main_loop is still receiving (FALSE after a panic)
    last,       \* the message main_loop is handling in this iteration, with
                \* the store before it and the response (Idle between two)
    nchanges,   \* number of didChange notifications received
    writer      \* a did_change that runs step by step on its own thread,
                \* holding the RefMut of its entry (pc "idle": none)

vars == <<documents, running, last, nchanges, writer>>

NoPosition == Position(0, 0)

\* the id of a message that is not a request
NoId == 0

\* the message in hand: its method and parameters, the store before it,
\* the result of hover and the responses main_loop has sent for it
Msg(op, uri, pre, text, changes, position, result) ==
    [op |-> op, uri |-> uri, pre |-> pre, text |-> text,
     changes |-> changes, position |-> position, result |-> result,
     id |-> NoId, sent |-> <<>>]

\* Response { id, result, error: None }: result None for HoverNone
Response(id, result) == [id |-> id, result |-> result]

\* a request of the given id in hand, and what main_loop sends for it:
\* the response that handle_request returned, nothing when hover panicked
Answered(msg, id, result) ==
    [msg EXCEPT !.id = id,
                !.sent = IF result = HoverPanic THEN <<>>
                         ELSE <<Response(id, result)>>]

\* mutant of StoreInsert: the store is left with the one new entry
StoreInsertAlone(store, uri, document) ==
    [u \in {uri} |-> document]

\* DashMap::insert
StoreInsert(store, uri, document) ==
    [u \in DOMAIN store \cup {uri} |->
        IF u = uri THEN document ELSE store[u]]

\* main_loop waits on connection.receiver
Idle == Msg("idle", "", <<>>, <<>>, <<>>, NoPosition, HoverNone)

NoWriter == [pc |-> "idle", uri |-> "", changes |-> <<>>]

\* mutant of GuardFree: no handler waits for the RefMut of another
GuardFreeAlways(uri) == TRUE

\* DashMap::get / get_mut / insert wait while another handler holds the
\* RefMut of the entry
GuardFree(uri) == writer.pc = "idle" \/ writer.uri /= uri

\* Backend::new
Init ==
    /\ documents = <<>>
    /\ running = TRUE
    /\ last = Idle
    /\ nchanges = 0
    /\ writer = NoWriter

\* Backend::did_open on a store
did_open(store, uri, text) == StoreInsert(store, uri, DocumentNew(uri, text))

\* did_change after Document::update gave r: on Ok the line index is
\* computed once more
ChangeEntry(store, uri, r) ==
    [documents |->
         [store EXCEPT ![uri] =
             IF r.panicked THEN r.document
             ELSE [r.document EXCEPT !.line_number_map =
                       compute_line_number_map(r.document.content)]],
     panicked |-> r.panicked]

\* mutant of did_change: an unknown uri gets an entry, built from the
\* changes applied to an empty document
did_change_create(store, uri, changes) ==
    ChangeEntry(StoreInsert(store, uri,
                            IF uri \in DOMAIN store THEN store[uri]
                            ELSE DocumentNew(uri, <<>>)),
                uri,
                DocumentUpdate(IF uri \in DOMAIN store THEN store[uri]
                               ELSE DocumentNew(uri, <<>>), changes))

\* Backend::did_change on a store: the store as the handler leaves it and
\* whether it panicked; an unknown uri is skipped (get_mut gives None)
did_change(store, uri, changes) ==
    IF uri \in DOMAIN store
    THEN ChangeEntry(store, uri, DocumentUpdate(store[uri], changes))
    ELSE [documents |-> store, panicked |-> FALSE]

\* Backend::hover on a store: the possible results; None (HoverNone) for
\* an unknown uri
hover(store, uri, position) ==
    IF uri \in DOMAIN store
    THEN HoverResults(store[uri], uri, position)
    ELSE {HoverNone}

\* the store a handler leaves, and main_loop ended by its panic
Handled(r) ==
    /\ documents' = r.documents
    /\ running' = ~r.panicked

\* handle_notification "textDocument/didOpen"
DidOpen(uri, text) ==
    /\ running /\ last = Idle
    /\ GuardFree(uri)
    /\ documents' = did_open(documents, uri, text)
    /\ last' = Msg("open", uri, documents, text, <<>>, NoPosition, HoverNone)
    /\ UNCHANGED <<running, nchanges, writer>>

\* handle_notification "textDocument/didChange"
DidChange(uri, changes) ==
    /\ running /\ last = Idle
    /\ GuardFree(uri)
    /\ nchanges < MaxChanges
    /\ nchanges' = nchanges + 1
    /\ last' = Msg("change", uri, documents, <<>>, changes, NoPosition,
                   HoverNone)
    /\ Handled(did_change(documents, uri, changes))
    /\ UNCHANGED writer

\* handle_request "textDocument/hover" and the response it sends
Hover(id, uri, position) ==
    /\ running /\ last = Idle
    /\ GuardFree(uri)
    /\ \E result \in hover(documents, uri, position) :
           /\ last' = Answered(Msg("hover", uri, documents, <<>>, <<>>,
                                   position, result), id, result)
           /\ running' = (result /= HoverPanic)
    /\ UNCHANGED <<documents, nchanges, writer>>

\* a message no handler touches the store for
Passed(op, id) ==
    [Msg(op, "", documents, <<>>, <<>>, NoPosition, HoverNone)
        EXCEPT !.id = id]

\* handle_request, any other method: Ok(None), nothing is sent
OtherRequest(id) ==
    /\ running /\ last = Idle
    /\ last' = Passed("request", id)
    /\ UNCHANGED <<documents, running, nchanges, writer>>

\* handle_notification, any other method: nothing is done
OtherNotification ==
    /\ running /\ last = Idle
    /\ last' = Passed("notification", NoId)
    /\ UNCHANGED <<documents, running, nchanges, writer>>

\* main_loop, Message::Response: logged
GotResponse(id) ==
    /\ running /\ last = Idle
    /\ last' = Passed("response", id)
    /\ UNCHANGED <<documents, running, nchanges, writer>>

\* main_loop: the iteration ends, the loop takes the next message
NextMessage ==
    /\ running /\ last /= Idle
    /\ last' = Idle
    /\ UNCHANGED <<documents, running, nchanges, writer>>

Next ==
    \/ \E uri \in URIs : \E text \in OpenTextsOf(uri) : DidOpen(uri, text)
    \/ \E uri \in URIs, changes \in Batches : DidChange(uri, changes)
    \/ \E id \in RequestIds, uri \in URIs, position \in HoverPositions :
           Hover(id, uri, position)
    \/ \E id \in RequestIds : OtherRequest(id)
    \/ OtherNotification
    \/ \E id \in RequestIds : GotResponse(id)
    \/ NextMessage

Spec == Init /\ [][Next]_vars

\* main_loop on the documents of the scenarios
NextScene ==
    \/ \E uri \in URIs : \E text \in SceneTextsOf(uri) : DidOpen(uri, text)
    \/ \E uri \in URIs, changes \in Batches : DidChange(uri, changes)
    \/ \E id \in RequestIds, uri \in URIs, position \in HoverPositions :
           Hover(id, uri, position)
    \/ \E id \in RequestIds : OtherRequest(id)
    \/ OtherNotification
    \/ \E id \in RequestIds : GotResponse(id)
    \/ NextMessage

SpecScene == Init /\ [][NextScene]_vars

\* ------------------------------------------------------------------------
\* did_change step by step, on a thread of its own, next to the handlers
\* of main_loop (the store is a DashMap: handlers share it by reference)
\* ------------------------------------------------------------------------
ConcTexts ==
    { <<>>, <<"x", "=", "1">>, <<"x", "=", "1", LF, "x", "=", "y">> }

ConcBatches ==
    {<<e>> : e \in {e \in Edits : ~e.ranged \/ e.start = e.end}}

\* the store with the rope of an entry as apply_changes left it
ApplyEntry(store, uri, r) ==
    [documents |-> [store EXCEPT ![uri].content = r.content],
     panicked |-> r.panicked]

\* did_change: get_mut takes the RefMut; Document::update runs
\* apply_changes on the rope in place
ChangeApply(uri, changes) ==
    /\ running /\ writer.pc = "idle"
    /\ uri \in DOMAIN documents
    /\ nchanges < MaxChanges
    /\ nchanges' = nchanges + 1
    /\ Handled(ApplyEntry(documents, uri,
                          apply_changes(documents[uri].content, changes)))
    /\ writer' = [pc |-> "applied", uri |-> uri, changes |-> changes]
    /\ UNCHANGED last

\* Document::update: self.line_number_map = compute_line_number_map(..)
ChangeLineMap ==
    /\ running /\ writer.pc = "applied"
    /\ documents' = [documents EXCEPT ![writer.uri].line_number_map =
                         compute_line_number_map(documents[writer.uri].content)]
    /\ writer' = [writer EXCEPT !.pc = "mapped"]
    /\ UNCHANGED <<running, last, nchanges>>

\* Document::update: self.ast = parse_rope_to_ast(..).ok()
ChangeParse ==
    /\ running /\ writer.pc = "mapped"
    /\ documents' = [documents EXCEPT ![writer.uri].ast =
                         parse_rope_to_ast(documents[writer.uri].content)]
    /\ writer' = [writer EXCEPT !.pc = "parsed"]
    /\ UNCHANGED <<running, last, nchanges>>

\* Document::update: self.symbol_table = self.compute_symbol_table()
ChangeSymbols ==
    /\ running /\ writer.pc = "parsed"
    /\ documents' = [documents EXCEPT ![writer.uri].symbol_table =
           compute_symbol_table(documents[writer.uri].uri,
                                documents[writer.uri].line_number_map,
                                documents[writer.uri].ast)]
    /\ writer' = [writer EXCEPT !.pc = "updated"]
    /\ UNCHANGED <<running, last, nchanges>>

\* did_change: the line index once more, then the RefMut is dropped
ChangeEnd ==
    /\ running /\ writer.pc = "updated"
    /\ documents' = [documents EXCEPT ![writer.uri].line_number_map =
                         compute_line_number_map(documents[writer.uri].content)]
    /\ writer' = NoWriter
    /\ UNCHANGED <<running, last, nchanges>>

NextConc ==
    \/ \E uri \in URIs : \E text \in ConcTexts \cap OpenTextsOf(uri) : DidOpen(uri, text)
    \/ \E uri \in URIs, changes \in ConcBatches : ChangeApply(uri, changes)
    \/ ChangeLineMap
    \/ ChangeParse
    \/ ChangeSymbols
    \/ ChangeEnd
    \/ \E uri \in URIs, position \in HoverPositions : Hover(1, uri, position)
    \/ NextMessage

SpecConc == Init /\ [][NextConc]_vars

\* ------------------------------------------------------------------------
\* Properties
\* ------------------------------------------------------------------------
\* the message in hand addresses a document that was in the store
Known == last.uri \in DOMAIN last.pre
PreDoc == last.pre[last.uri]
PostDoc == documents[last.uri]
Changed == last.op = "change" /\ Known
Hovered == last.op = "hover" /\ Known

\* the rope after the whole batch of the change in hand
NewText == apply_changes(PreDoc.content, last.changes).content

\* the change in hand: a parsable document with a non-trivial symbol table
\* gets edits that make its text unparsable
ParseLost ==
    /\ Changed /\ running
    /\ PreDoc.ast.some
    /\ ~parse_program(NewText).ok

EditMalformed(content, e) ==
    /\ e.ranged
    /\ LET start == to_rope_position(content, e.start)
           end == to_rope_position(content, e.end)
       IN start = PANIC \/ end = PANIC \/ start > end \/ end > Len(content)

RECURSIVE BatchMalformed(_, _)
BatchMalformed(content, changes) ==
    /\ changes /= <<>>
    /\ \/ EditMalformed(content, Head(changes))
       \/ BatchMalformed(apply_change(content, Head(changes)).content,
                         Tail(changes))

\* C2: a change notification with a malformed edit is rejected as a
\* whole: the handler returns and the store is what it was before.
C2_BatchRejected ==
    (Changed /\ BatchMalformed(PreDoc.content, last.changes)) =>
        running /\ documents = last.pre

\* C3: for every stored document and every character offset o of its
\* text, the line L of o and the column o - lineStarts[L] convert back to o.
C3_RoundTrip ==
    running =>
        \A u \in DOMAIN documents :
            LET d == documents[u]
            IN \A o \in 0..(Len(d.content) - 1) :
                   LET L == get_line_number(d.line_number_map, o)
                   IN /\ L /= NoLine
                      /\ to_rope_position(d.content,
                             Position(L, o - d.line_number_map[L + 1])) = o

\* the containment rule: a one-line span needs both column bounds
SpanContains(location, line, character) ==
    IF location.start.line = location.end.line
    THEN /\ line = location.start.line
         /\ character >= location.start.character
         /\ character <= location.end.character
    ELSE \/ line > location.start.line /\ line < location.end.line
         \/ line = location.start.line /\ character >= location.start.character
         \/ line = location.end.line /\ character <= location.end.character

\* C4: a hover answers with a symbol only if the resolved (line,
\* character) lies in the symbol's span.
C4_HoverContainment ==
    (Hovered /\ last.result.kind = "symbol") =>
        SpanContains(last.result.location,
                     HoverLine(PreDoc, last.position),
                     HoverCharacter(PreDoc, last.position))

\* C6: whatever messages arrive, main_loop keeps running.
C6_HostSurvives == running

\* the change in hand is one rangeless edit
FullReplace ==
    /\ Changed /\ running
    /\ Len(last.changes) = 1 /\ ~last.changes[1].ranged

\* C7: after update with one rangeless edit, update with the same edit
\* again leaves text, line index and symbol table (the whole Document)
\* as they are.
C7_FullReplaceIdempotent ==
    FullReplace =>
        did_change(documents, last.uri, last.changes) =
            [documents |-> documents, panicked |-> FALSE]

C7_Witness == FullReplace /\ PostDoc /= PreDoc

\* the statements of a body that define name n, by index
DefsOf(d, n) ==
    {i \in 1..Len(d.ast.body) :
        \E s \in create_symbol_info(d.uri, d.line_number_map, d.ast.body[i]) :
            s.name = n}

DefinedNames(d) ==
    {s.name : s \in UNION {create_symbol_info(d.uri, d.line_number_map,
                                              d.ast.body[i]) :
                               i \in 1..Len(d.ast.body)}}

LastDef(d, n) == CHOOSE i \in DefsOf(d, n) : \A j \in DefsOf(d, n) : j <= i

\* C8: a name defined by two or more top-level statements has exactly
\* one record, with the kind and range of the last of them.
C8_SymbolOverwrite ==
    running =>
        \A u \in DOMAIN documents :
            LET d == documents[u]
            IN \A n \in DefinedNames(d) :
                   Cardinality(DefsOf(d, n)) >= 2 =>
                       {s \in d.symbol_table : s.name = n} =
                           create_symbol_info(d.uri, d.line_number_map,
                                              d.ast.body[LastDef(d, n)])

C8_Witness ==
    /\ running
    /\ \E u \in DOMAIN documents :
           \E n \in DefinedNames(documents[u]) :
               LET d == documents[u]
                   ds == DefsOf(d, n)
               IN /\ Cardinality(ds) >= 2
                  /\ \E i \in ds :
                         create_symbol_info(d.uri, d.line_number_map,
                                            d.ast.body[i])
                             /= {s \in d.symbol_table : s.name = n}

\* C9: a hover for a uri that is not in the store answers none; a change
\* for such a uri leaves the store as it is; main_loop keeps running.
C9_UnknownIdentity ==
    (last.op \in {"hover", "change"} /\ ~Known) =>
        /\ running
        /\ documents = last.pre
        /\ last.op = "hover" => last.result = HoverNone

C9_Witness ==
    /\ last.op = "change" /\ ~Known
    /\ DOMAIN documents /= {}

\* the change in hand is a batch of two edits that was applied
PairApplied == Changed /\ running /\ Len(last.changes) = 2

\* the rope after the two edits of the batch in hand, the second resolved
\* on the rope the first one left
InOrder ==
    apply_change(apply_change(PreDoc.content, last.changes[1]).content,
                 last.changes[2]).content

C5_AtomicUpdate ==
    Hovered => PreDoc = DocumentNew(last.uri, PreDoc.content)

\* a hover answered while a change is under way, on a document that an
\* earlier change has rewritten
C5_Witness ==
    /\ Hovered
    /\ writer.pc \in {"applied", "mapped", "parsed", "updated"}
    /\ nchanges = 2
    /\ PreDoc.content \notin ConcTexts

\* the text ends with a line terminator
EndsWithBreak(t) == t /= <<>> /\ t[Len(t)] \in {LF, CR}

\* C11: in every stored Document the line index is non-empty, starts at
\* 0, is strictly increasing, has one entry per line of the text, and
\* entry i is the character offset of the first character of line i.
C11_LineIndex ==
    running =>
        \A u \in DOMAIN documents :
            LET d == documents[u]
                m == d.line_number_map
            IN /\ m /= <<>>
               /\ m[1] = 0
               /\ \A i \in 1..(Len(m) - 1) : m[i] < m[i + 1]
               /\ \/ Len(m) = RopeLenLines(d.content)
                  \/ /\ EndsWithBreak(d.content)
                     /\ Len(m) = RopeLenLines(d.content) - 1
               /\ \A i \in 1..Len(m) : m[i] = RopeLineToChar(d.content, i - 1)

\* C12: for every stored Document and every offset from 0 to the length
\* of its text, get_line_number gives the greatest line whose start is
\* at most the offset; offset 0 of an empty document gives line 0.
C12_OffsetToLine ==
    running =>
        \A u \in DOMAIN documents :
            LET d == documents[u]
                m == d.line_number_map
            IN \A o \in 0..Len(d.content) :
                   LET L == get_line_number(m, o)
                   IN /\ L /= NoLine
                      /\ m[L + 1] <= o
                      /\ \A j \in 1..Len(m) : j > L + 1 => m[j] > o

\* the change in hand is one edit that was applied
SingleApplied == Changed /\ running /\ Len(last.changes) = 1

\* the offsets the range of the edit in hand resolves to
EditStart == to_rope_position(PreDoc.content, last.changes[1].start)
EditEnd == to_rope_position(PreDoc.content, last.changes[1].end)

\* C13: an edit whose range resolves to offsets start <= end <= length
\* leaves text[0, start) ++ newText ++ text[end, length), character by
\* character; an edit without a range leaves exactly newText.
C13_RangedEdit ==
    SingleApplied =>
        LET e == last.changes[1]
            old == PreDoc.content
            new == PostDoc.content
        IN IF ~e.ranged THEN new = e.text
           ELSE /\ Len(new) = Len(old) - (EditEnd - EditStart) + Len(e.text)
                /\ \A i \in 1..Len(new) :
                       new[i] = IF i <= EditStart THEN old[i]
                                ELSE IF i <= EditStart + Len(e.text)
                                THEN e.text[i - EditStart]
                                ELSE old[i - Len(e.text) + (EditEnd - EditStart)]

\* "abcde" with [1, 3) replaced by "XY" gives "aXYde"
C13_Witness ==
    /\ SingleApplied
    /\ last.changes[1] \in InnerEdits
    /\ PreDoc.content = <<"a", "b", "c", "d", "e">>
    /\ PostDoc.content = <<"a", "X", "Y", "d", "e">>

\* the hover in hand: document text "x = 1\n", line 0, character 5
HoverPastOne ==
    /\ Hovered
    /\ PreDoc.content = <<"x", SP, "=", SP, "1", LF>>
    /\ last.position = Position(0, 5)

\* C14 as stated: on "x = 1\n" a hover at line 0, character 5 does not
\* resolve to the symbol x: it answers with the raw character '1', the
\* offset, line and column and the uri.
C14_HoverFallsBack ==
    HoverPastOne =>
        /\ last.result.kind = "char"
        /\ last.result.ch = "1"
        /\ last.result.offset = 5
        /\ last.result.line = 0
        /\ last.result.character = 5
        /\ last.result.uri = last.uri

\* C14 amended: on "x = 1\n" a hover at line 0, character 5 resolves to
\* the symbol x, a variable spanning line 0, columns 0 to 5.
C14_HoverResolves ==
    HoverPastOne =>
        last.result = [kind |-> "symbol", name |-> <<"x">>,
                       symkind |-> "VARIABLE",
                       location |-> [uri |-> last.uri,
                                     start |-> Position(0, 0),
                                     end |-> Position(0, 5)]]

C14_Witness == HoverPastOne /\ running /\ last.result.kind = "symbol"

\* the change in hand has all its edits in bounds
InBounds == Changed /\ ~BatchMalformed(PreDoc.content, last.changes)

\* C15: a change whose edits are all in bounds is committed to the
\* buffer whether or not the new text parses, and whether or not the text
\* before it parsed; the handler returns normally.
C15_EditsNotBlocked ==
    InBounds =>
        /\ running
        /\ PostDoc.content = NewText

\* an edit on a document that an earlier change left unparsable, which
\* leaves it unparsable again with another text
C15_Witness ==
    /\ InBounds
    /\ nchanges = 2
    /\ ~PreDoc.ast.some
    /\ ~PostDoc.ast.some
    /\ PostDoc.content /= PreDoc.content

\* the line of the rope that character offset o lies on
LineOfChar(t, o) == Cardinality({i \in 1..o : RopeBreakAt(t, i)})

\* statement i of the document of the hover in hand is a function
\* definition over several lines, the position of the hover lies inside
\* it and in the span of no other symbol
InsideFunction(i) ==
    LET d == PreDoc
        stmt == d.ast.body[i]
        offset == HoverOffset(d, last.position)
    IN /\ stmt.kind = "FunctionDef"
       /\ LineOfChar(d.content, stmt.start) < LineOfChar(d.content, stmt.end)
       /\ offset /= PANIC
       /\ offset >= stmt.start /\ offset < stmt.end
       /\ \A s \in d.symbol_table :
              s.name /= stmt.name =>
                  ~HoverMatch(s.location, HoverLine(d, last.position),
                              HoverCharacter(d, last.position))

\* C16: a hover inside a top-level function definition that spans
\* several lines resolves to the symbol with the function's name, kind
\* Function, and a range from the first line of the statement to its
\* last line.
C16_HoverFunction ==
    Hovered =>
        \A i \in 1..Len(PreDoc.ast.body) :
            InsideFunction(i) =>
                LET stmt == PreDoc.ast.body[i]
                IN /\ last.result.kind = "symbol"
                   /\ last.result.name = stmt.name
                   /\ last.result.symkind = "FUNCTION"
                   /\ last.result.location.start.line =
                          LineOfChar(PreDoc.content, stmt.start)
                   /\ last.result.location.end.line =
                          LineOfChar(PreDoc.content, stmt.end)

\* "def foo():\n    pass\n", hover at line 0, character 4: foo, lines 0-1
C16_Witness ==
    /\ Hovered
    /\ PreDoc.content = FooText
    /\ last.position = Position(0, 4)
    /\ InsideFunction(1)
    /\ last.result.kind = "symbol"
    /\ last.result.name = <<"f", "o", "o">>
    /\ last.result.location.start.line = 0
    /\ last.result.location.end.line = 1

\* the symbols whose span contains the position of the hover in hand,
\* by the containment rule
Containing ==
    {s \in PreDoc.symbol_table :
        SpanContains(s.location, HoverLine(PreDoc, last.position),
                     HoverCharacter(PreDoc, last.position))}

\* C17: when the symbol table is the one of the current text and the
\* position lies in the span of at most one symbol, hover gives the same
\* result for every iteration order of the table.
C17_ScanOrder ==
    (/\ Hovered
     /\ PreDoc = DocumentNew(last.uri, PreDoc.content)
     /\ HoverCharacter(PreDoc, last.position) /= PANIC
     /\ Cardinality(Containing) <= 1) =>
        Cardinality(hover(last.pre, last.uri, last.position)) = 1

\* the open or change in hand has completed
Completed ==
    /\ last.op \in {"open", "change"}
    /\ running
    /\ last.uri \in DOMAIN documents

\* C18: after every completed open or change the line index is the one
\* of the current text, the tree is the parse of that text (none when it
\* does not parse), and the symbol table is extracted from that tree
\* through that line index.
C18_DerivedCurrent ==
    Completed =>
        /\ PostDoc.line_number_map = compute_line_number_map(PostDoc.content)
        /\ PostDoc.ast = parse_rope_to_ast(PostDoc.content)
        /\ PostDoc.symbol_table =
               compute_symbol_table(last.uri,
                   compute_line_number_map(PostDoc.content),
                   parse_rope_to_ast(PostDoc.content))

\* a change that moved the line starts and left a symbol below line 0
C18_Witness ==
    /\ Completed /\ Changed
    /\ PostDoc.line_number_map /= PreDoc.line_number_map
    /\ PostDoc.symbol_table /= PreDoc.symbol_table
    /\ \E s \in PostDoc.symbol_table : s.location.start.line >= 1

\* C19: every hover request gets exactly one response, with the id of
\* the request (its result none when the uri is unknown), before the
\* next message is taken; no other message gets a response; messages
\* other than didOpen and didChange leave the store as it is.
C19_Protocol ==
    /\ last.op = "hover" =>
           /\ last.sent = <<Response(last.id, last.result)>>
           /\ ~Known => last.result = HoverNone
    /\ last.op /= "hover" => last.sent = <<>>
    /\ last.op \in {"hover", "request", "notification", "response"} =>
           documents = last.pre

\* C20: an open or change for one uri leaves every entry of another key
\* as it is and adds or removes no other key; an open puts the Document
\* built from its text under its uri, replacing the one that was there;
\* a hover leaves the store as it is; the uri of every Document is its
\* key.
C20_StoreFrame ==
    /\ last.op \in {"open", "change"} =>
           /\ DOMAIN documents \ {last.uri} = DOMAIN last.pre \ {last.uri}
           /\ \A u \in DOMAIN last.pre \ {last.uri} :
                  documents[u] = last.pre[u]
    /\ last.op = "open" =>
           /\ last.uri \in DOMAIN documents
           /\ PostDoc = DocumentNew(last.uri, last.text)
    /\ last.op = "change" =>
           (last.uri \in DOMAIN documents) = (last.uri \in DOMAIN last.pre)
    /\ last.op = "hover" => documents = last.pre
    /\ \A u \in DOMAIN documents : documents[u].uri = u

\* an open of a uri that is open with another text, next to another
\* document
C20_Witness ==
    /\ last.op = "open" /\ Known
    /\ PreDoc.content /= last.text
    /\ DOMAIN last.pre \ {last.uri} /= {}
    /\ PostDoc.content = last.text

====
